---------------------------- MODULE Spec2Model ----------------------------
(***************************************************************************)
(* RoadGenerationDiscreteEnv (carl-sbst2022/road_generation_env_discrete.py)*)
(* as a state machine: the point set `state`, the episode counter          *)
(* `step_counter`, and the two operations `step` and `reset`.              *)
(***************************************************************************)
EXTENDS Integers, Sequences, FiniteSets, TLC

(* ----------------------------- configuration --------------------------- *)

\* Constructor parameters (defaults 1000 and 5), kept small for checking.
max_steps == 2
max_number_of_points == 2

grid_size == 200
invalid_test_reward == -10
discretization_precision == 10

ADD_UPDATE == 0
REMOVE == 1

\* Fractions are kept exact as <<numerator, denominator>>, denominator > 0.
Less(a, b) == a[1] * b[2] < b[1] * a[2]
LessEq(a, b) == a[1] * b[2] <= b[1] * a[2]

\* self.grid_size / 20 for a grid size g, a fraction.
map_buffer_area_width(g) == <<g, 20>>

\* number_of_discrete_coords of __init__ for a grid size g: the bound of the
\* x and y fields, truncated to an integer by MultiDiscrete.
number_of_discrete_coords_for(g) ==
    LET number_of_discrete_coords_in_map == g * discretization_precision
        width_of_buffer_area == <<map_buffer_area_width(g)[1] * discretization_precision,
                                  map_buffer_area_width(g)[2]>>
    IN  (number_of_discrete_coords_in_map * width_of_buffer_area[2]
            - 2 * width_of_buffer_area[1]) \div width_of_buffer_area[2]

number_of_discrete_coords == number_of_discrete_coords_for(grid_size)

\* self.step_counter as the base class constructor leaves it.
initial_step_counter == 0

\* step_counter is unbounded in the code; steps are explored up to here
\* (two full episodes and one step more).
StepCap == 2 * max_steps + 1

Slots == 0 .. (max_number_of_points - 1)

Sentinel == <<0, 0>>

(* ------------------------------- inputs -------------------------------- *)

\* Coordinates the checked actions carry: the sentinel's literal value, both
\* points with exactly one zero coordinate, an interior point and the last
\* addressable coordinate.
SamplePoints ==
    { <<0, 0>>, <<0, 5>>, <<5, 0>>, <<5, 5>>,
      <<number_of_discrete_coords - 1, number_of_discrete_coords - 1>> }

InBoundsActions ==
    { <<t, p, c[1], c[2]>> : t \in {ADD_UPDATE, REMOVE}, p \in Slots, c \in SamplePoints }

\* One field at a time outside the declared action space, on either side.
OutOfBoundsActions ==
    { <<2, 0, 5, 5>>, <<-1, 0, 5, 5>>,
      <<ADD_UPDATE, max_number_of_points, 5, 5>>, <<REMOVE, -1, 5, 5>>,
      <<ADD_UPDATE, 0, number_of_discrete_coords, 5>>, <<ADD_UPDATE, 0, -1, 5>>,
      <<ADD_UPDATE, 0, 5, number_of_discrete_coords>>, <<REMOVE, 0, 5, -1>> }

Actions == InBoundsActions \cup OutOfBoundsActions

\* What the external evaluator may answer: <<reward, max_oob>>.
EvaluatorAnswers == { <<100, 50>>, <<5, 0>>, <<invalid_test_reward, 0>> }

(* ------------------------------- state --------------------------------- *)

VARIABLES
    state,          \* self.state : slot -> <<x, y>>
    step_counter,   \* self.step_counter
    call,           \* the last call: "init", "reset", "step" or "raised"
    last_action,    \* the action of the last step call
    branch,         \* the branch of step taken by the last call
    ret,            \* what the last call returned
    evaluations,    \* invocations of compute_step during the last call
    evaluated,      \* self.state as compute_step found it in the last call
    max_oob,        \* the local max_oob of the last step call
    consecutive_resets, \* reset calls in a row ending at the last call, up to 2
    calls_since_reset,  \* step calls that returned since the last reset
    reset_seen,         \* reset has been called since construction
    done_returned,      \* a step since the last reset returned done=True
    conv_phase,         \* "idle", "drawn" or "converted"
    conv_input,         \* the grid size, two coordinates d1 < d2 and an OOB value
    conv_output         \* their observation entries and continuous coordinates

vars == <<state, step_counter, call, last_action, branch, ret, evaluations,
          evaluated, max_oob, consecutive_resets, calls_since_reset, reset_seen,
          done_returned, conv_phase, conv_input, conv_output>>

env_vars == <<state, step_counter, call, last_action, branch, ret, evaluations,
              evaluated, max_oob, consecutive_resets, calls_since_reset, reset_seen,
              done_returned>>

conv_vars == <<conv_phase, conv_input, conv_output>>

NoAction == <<-1, -1, -1, -1>>
NoReturn == [obs |-> <<>>, reward |-> 0, done |-> FALSE]
NotEvaluated == <<>>
NoOob == -1

(* --------------------------- pure helpers ------------------------------ *)

\* Variant: the coordinate bound taken inclusive.
contains_inclusive_bound(action) ==
    /\ action[1] \in 0 .. 1
    /\ action[2] \in 0 .. (max_number_of_points - 1)
    /\ action[3] \in 0 .. number_of_discrete_coords
    /\ action[4] \in 0 .. number_of_discrete_coords

\* spaces.MultiDiscrete([2, n, c, c]).contains(action)
contains(action) ==
    /\ action[1] \in 0 .. 1
    /\ action[2] \in 0 .. (max_number_of_points - 1)
    /\ action[3] \in 0 .. (number_of_discrete_coords - 1)
    /\ action[4] \in 0 .. (number_of_discrete_coords - 1)

\* Variant: the scan stops one slot short.
check_coordinates_skips_last_slot(st, x, y) ==
    \E i \in 0 .. (max_number_of_points - 2) : x = st[i][1] /\ y = st[i][2]

check_coordinates_already_exist(st, x, y) ==
    \E i \in 0 .. (max_number_of_points - 1) : x = st[i][1] /\ y = st[i][2]

\* Defined by the base class RoadGenerationEnv: the slot is present.
check_some_coordinates_exist_at_position(st, position) ==
    st[position] # Sentinel

\* Variant: each tuple is emitted y first.
RECURSIVE flatten_y_first(_, _)
flatten_y_first(st, i) ==
    IF i = max_number_of_points THEN <<>>
    ELSE <<st[i][2], st[i][1]>> \o flatten_y_first(st, i + 1)

\* [coordinate for tuple in self.state for coordinate in tuple]
RECURSIVE flatten(_, _)
flatten(st, i) ==
    IF i = max_number_of_points THEN <<>>
    ELSE <<st[i][1], st[i][2]>> \o flatten(st, i + 1)

get_state_observation(st) == flatten(st, 0)

\* np.float16 of a non-negative integer: 11 significant bits, round to
\* nearest even, overflow to infinity (written F16Inf).
F16Inf == 65536

RECURSIVE f16_quantum(_, _)
f16_quantum(n, q) == IF n < 2048 * q THEN q ELSE f16_quantum(n, 2 * q)

float16(n) ==
    LET q == f16_quantum(n, 1)
        lo == (n \div q) * q
        r == n - lo
        rounded == IF 2 * r < q THEN lo
                   ELSE IF 2 * r > q THEN lo + q
                   ELSE IF (lo \div q) % 2 = 0 THEN lo ELSE lo + q
    IN  IF rounded > 65504 THEN F16Inf ELSE rounded

\* np.array(obs, dtype=np.float16)
RECURSIVE as_float16(_)
as_float16(obs) ==
    IF obs = <<>> THEN <<>>
    ELSE <<float16(Head(obs))>> \o as_float16(Tail(obs))

\* Variant: the division is a floor division.
to_continuous_floor(g, d) ==
    << (d * map_buffer_area_width(g)[2] + map_buffer_area_width(g)[1])
          \div (map_buffer_area_width(g)[2] * discretization_precision), 1 >>

\* (d + self.map_buffer_area_width) / self.discretization_precision for a
\* grid size g, a fraction.
to_continuous_for(g, d) ==
    << d * map_buffer_area_width(g)[2] + map_buffer_area_width(g)[1],
       map_buffer_area_width(g)[2] * discretization_precision >>

to_continuous(d) == to_continuous_for(grid_size, d)

RECURSIVE road_points_from(_, _)
road_points_from(st, i) ==
    IF i = max_number_of_points THEN <<>>
    ELSE (IF st[i][1] # 0 /\ st[i][2] # 0
          THEN << <<to_continuous(st[i][1]), to_continuous(st[i][2])>> >>
          ELSE <<>>) \o road_points_from(st, i + 1)

get_road_points(st) == road_points_from(st, 0)

(* ------------------------------- step ---------------------------------- *)

\* The branch of the if/elif chain of step that runs.
step_branch(st, action) ==
    LET action_type == action[1]
        position == action[2]
        x == action[3]
        y == action[4]
    IN  IF action_type = ADD_UPDATE /\ ~check_coordinates_already_exist(st, x, y)
            THEN "add"
        ELSE IF action_type = ADD_UPDATE /\ check_coordinates_already_exist(st, x, y)
            THEN "duplicate"
        ELSE IF action_type = REMOVE /\ check_some_coordinates_exist_at_position(st, position)
            THEN "remove"
        ELSE IF action_type = REMOVE /\ ~check_some_coordinates_exist_at_position(st, position)
            THEN "empty"
        ELSE "none"

\* Variant: the slot after the addressed one is written.
set_point_next_slot(st, position, x, y) ==
    [st EXCEPT ![(position + 1) % max_number_of_points] = <<x, y>>]

\* self.state[position] = (x, y)
set_point(st, position, x, y) == [st EXCEPT ![position] = <<x, y>>]

\* Variant: only the x coordinate is zeroed.
clear_point_keeps_y(st, position) == [st EXCEPT ![position] = <<0, st[position][2]>>]

\* self.state[position] = (0, 0)
clear_point(st, position) == [st EXCEPT ![position] = <<0, 0>>]

\* Variant: a rejected action is not penalised.
rejection_without_penalty == <<0, 0>>

\* reward, max_oob of the two rejecting branches.
rejection == <<invalid_test_reward, 0>>

\* done = self.step_counter == self.max_steps
done_after(counter) == counter = max_steps

\* Variant: compute_step runs before the slot is assigned.
accept_evaluating_first(b, action, answer) ==
    LET position == action[2]
        mutated == IF b = "add" THEN set_point(state, position, action[3], action[4])
                   ELSE clear_point(state, position)
    IN  /\ state' = mutated
        /\ evaluations' = 1
        /\ evaluated' = state
        /\ max_oob' = answer[2]
        /\ ret' = [obs |-> as_float16(Append(get_state_observation(mutated), answer[2])),
                   reward |-> answer[1],
                   done |-> done_after(step_counter + 1)]

\* The two accepting branches: mutate the slot, then reward, max_oob =
\* self.compute_step(); answer is what the evaluator returns.
accept(b, action, answer) ==
    LET position == action[2]
        mutated == IF b = "add" THEN set_point(state, position, action[3], action[4])
                   ELSE clear_point(state, position)
    IN  /\ state' = mutated
        /\ evaluations' = 1
        /\ evaluated' = mutated
        /\ max_oob' = answer[2]
        /\ ret' = [obs |-> as_float16(Append(get_state_observation(mutated), answer[2])),
                   reward |-> answer[1],
                   done |-> done_after(step_counter + 1)]

\* The two rejecting branches: fixed reward and max_oob, no evaluation.
reject ==
    /\ state' = state
    /\ evaluations' = 0
    /\ evaluated' = NotEvaluated
    /\ max_oob' = rejection[2]
    /\ ret' = [obs |-> as_float16(Append(get_state_observation(state), rejection[2])),
               reward |-> rejection[1],
               done |-> done_after(step_counter + 1)]

\* step with an action the assert refuses: AssertionError, nothing assigned.
step_raises(action) ==
    /\ ~contains(action)
    /\ call' = "raised"
    /\ last_action' = action
    /\ branch' = "none"
    /\ ret' = NoReturn
    /\ evaluations' = 0
    /\ evaluated' = NotEvaluated
    /\ max_oob' = NoOob
    /\ consecutive_resets' = 0
    /\ UNCHANGED <<state, step_counter, calls_since_reset, reset_seen, done_returned>>
    /\ UNCHANGED conv_vars

step_returns(action) ==
    /\ contains(action)
    /\ step_counter < StepCap
    /\ step_counter' = step_counter + 1
    /\ call' = "step"
    /\ last_action' = action
    /\ branch' = step_branch(state, action)
    /\ IF step_branch(state, action) \in {"add", "remove"}
       THEN \E answer \in EvaluatorAnswers : accept(step_branch(state, action), action, answer)
       ELSE reject
    /\ calls_since_reset' = calls_since_reset + 1
    /\ done_returned' = (done_returned \/ done_after(step_counter + 1))
    /\ consecutive_resets' = 0
    /\ UNCHANGED <<reset_seen, conv_vars>>

step(action) == step_raises(action) \/ step_returns(action)

(* ------------------------------- reset --------------------------------- *)

\* Variant: the observation is taken before the slots are re-created.
reset_observing_first ==
    /\ state' = [i \in 0 .. (max_number_of_points - 1) |-> <<0, 0>>]
    /\ call' = "reset"
    /\ last_action' = NoAction
    /\ branch' = "none"
    /\ ret' = [obs |-> as_float16(Append(get_state_observation(state), 0)),
               reward |-> 0, done |-> FALSE]
    /\ evaluations' = 0
    /\ evaluated' = NotEvaluated
    /\ max_oob' = NoOob
    /\ consecutive_resets' = (IF consecutive_resets < 2 THEN consecutive_resets + 1 ELSE 2)
    /\ calls_since_reset' = 0
    /\ reset_seen' = TRUE
    /\ done_returned' = FALSE
    /\ UNCHANGED <<step_counter, conv_vars>>

reset ==
    /\ state' = [i \in 0 .. (max_number_of_points - 1) |-> <<0, 0>>]
    /\ call' = "reset"
    /\ last_action' = NoAction
    /\ branch' = "none"
    /\ ret' = [obs |-> as_float16(Append(
                          get_state_observation([i \in 0 .. (max_number_of_points - 1) |-> <<0, 0>>]), 0)),
               reward |-> 0, done |-> FALSE]
    /\ evaluations' = 0
    /\ evaluated' = NotEvaluated
    /\ max_oob' = NoOob
    /\ consecutive_resets' = (IF consecutive_resets < 2 THEN consecutive_resets + 1 ELSE 2)
    /\ calls_since_reset' = 0
    /\ reset_seen' = TRUE
    /\ done_returned' = FALSE
    /\ UNCHANGED <<step_counter, conv_vars>>

(* ---------------------------- specification ---------------------------- *)

NoInput == [grid_size |-> 0, d1 |-> 0, d2 |-> 0, oob |-> 0]
NoOutput == [obs1 |-> 0, obs2 |-> 0, oob |-> 0, continuous1 |-> <<0, 1>>,
             continuous2 |-> <<0, 1>>]

\* The environment as __init__ leaves it.
constructed ==
    /\ state = [i \in 0 .. (max_number_of_points - 1) |-> <<0, 0>>]
    /\ step_counter = initial_step_counter
    /\ call = "init"
    /\ last_action = NoAction
    /\ branch = "none"
    /\ ret = NoReturn
    /\ evaluations = 0
    /\ evaluated = NotEvaluated
    /\ max_oob = NoOob
    /\ consecutive_resets = 0
    /\ calls_since_reset = 0
    /\ reset_seen = FALSE
    /\ done_returned = FALSE

Init ==
    /\ constructed
    /\ conv_phase = "idle"
    /\ conv_input = NoInput
    /\ conv_output = NoOutput

Next ==
    \/ \E action \in Actions : step(action)
    \/ reset

Spec == Init /\ [][Next]_vars

(* ----------------------------- conversions ------------------------------ *)

\* The conversions of one stored coordinate on their own: into the float16
\* observation entry and into the continuous coordinate handed to the
\* evaluator, for environments constructed with different grid sizes.
GridSizes == {20, 200, 228}

\* The coordinates compared with d1: the next one, one a few cells on and the
\* last addressable one.
LaterCoordinates(g, d1) ==
    { d2 \in {d1 + 1, d1 + 7, number_of_discrete_coords_for(g) - 1} :
        d1 < d2 /\ d2 < number_of_discrete_coords_for(g) }

\* max_oob values at the ends of the evaluator's range.
OobValues == {0, 100}

ConversionInit ==
    /\ constructed
    /\ conv_phase = "drawn"
    /\ \E g \in GridSizes :
        \E d1 \in 0 .. (number_of_discrete_coords_for(g) - 1) :
        \E d2 \in LaterCoordinates(g, d1) :
        \E oob \in OobValues :
            conv_input = [grid_size |-> g, d1 |-> d1, d2 |-> d2, oob |-> oob]
    /\ conv_output = NoOutput

\* What step and get_road_points make of the drawn values.
convert ==
    /\ conv_phase = "drawn"
    /\ conv_phase' = "converted"
    /\ conv_output' =
          [obs1 |-> float16(conv_input.d1),
           obs2 |-> float16(conv_input.d2),
           oob |-> float16(conv_input.oob),
           continuous1 |-> to_continuous_for(conv_input.grid_size, conv_input.d1),
           continuous2 |-> to_continuous_for(conv_input.grid_size, conv_input.d2)]
    /\ UNCHANGED <<conv_input, env_vars>>

ConversionNext == convert

ConversionSpec == ConversionInit /\ [][ConversionNext]_vars

(* ------------------------------ properties ----------------------------- *)

\* The vocabulary of the properties, stated without the operators above.
IsPresent(st, i) == st[i] # <<0, 0>>

PresentSlots(st) == { i \in Slots : IsPresent(st, i) }

DeclaredExtent ==
    grid_size * discretization_precision
        - 2 * (grid_size \div 20) * discretization_precision

InDeclaredSpace(a) ==
    /\ a[1] \in {0, 1}
    /\ 0 <= a[2] /\ a[2] < max_number_of_points
    /\ 0 <= a[3] /\ a[3] < DeclaredExtent
    /\ 0 <= a[4] /\ a[4] < DeclaredExtent

Last(s) == s[Len(s)]

\* The transition is a call of step (returning or raising).
StepCalled == call' \in {"step", "raised"}

\* C1: in every reachable state no two present slots (slots not holding the
\* sentinel (0,0)) hold the same (x, y).
C1_UniquePresentPoints ==
    \A i, j \in Slots :
        (i # j /\ IsPresent(state, i) /\ IsPresent(state, j)) => state[i] # state[j]

\* C1 witness: every slot is present and the last step tried to write a
\* point that another slot holds.
C1_Witness ==
    /\ call = "step"
    /\ last_action[1] = ADD_UPDATE
    /\ PresentSlots(state) = Slots
    /\ \E i \in Slots : i # last_action[2] /\ state[i] = <<last_action[3], last_action[4]>>

\* C2: every rejected step (ADD_UPDATE of a coordinate some slot holds, or
\* REMOVE on an empty slot) returns normally with reward invalid_test_reward
\* and max_oob 0 as the last observation element, and leaves every slot as it
\* was before the step.
C2_RejectedStep ==
    [][ LET a == last_action'
            duplicate == a[1] = ADD_UPDATE
                         /\ \E i \in Slots : state[i] = <<a[3], a[4]>>
            empty == a[1] = REMOVE /\ ~IsPresent(state, a[2])
        IN  (StepCalled /\ InDeclaredSpace(a) /\ (duplicate \/ empty)) =>
                /\ call' = "step"
                /\ ret'.reward = -10
                /\ Last(ret'.obs) = 0
                /\ Len(ret'.obs) = 2 * max_number_of_points + 1
                /\ state' = state ]_vars

\* C2 witness: a REMOVE on an empty slot was just rejected while another
\* slot is present.
C2_Witness ==
    /\ call = "step"
    /\ last_action[1] = REMOVE
    /\ ~IsPresent(state, last_action[2])
    /\ ret.reward = -10
    /\ evaluations = 0
    /\ PresentSlots(state) # {}

\* C3: an in-bounds ADD_UPDATE (slot, x, y) is accepted if and only if no
\* present slot holds exactly (x, y); when accepted the target slot holds
\* (x, y) afterwards, and when a present slot holds (x, y) it is rejected.
C3_AddAcceptedIffNotPresent ==
    [][ LET a == last_action'
            held == \E i \in Slots : IsPresent(state, i) /\ state[i] = <<a[3], a[4]>>
            accepted == evaluations' = 1
        IN  (call' = "step" /\ a[1] = ADD_UPDATE) =>
                /\ accepted <=> ~held
                /\ accepted => state'[a[2]] = <<a[3], a[4]>>
                /\ held => state' = state ]_vars

\* C4: an in-bounds REMOVE on slot s is accepted if and only if slot s is
\* present; when accepted, slot s holds the sentinel afterwards.
C4_RemoveAcceptedIffPresent ==
    [][ LET a == last_action'
            accepted == evaluations' = 1
        IN  (call' = "step" /\ a[1] = REMOVE) =>
                /\ accepted <=> IsPresent(state, a[2])
                /\ accepted => state'[a[2]] = <<0, 0>>
                /\ ~accepted => state' = state ]_vars

\* C4 witness: a REMOVE was just accepted, its slot now holds the sentinel
\* and another slot is still present.
C4_Witness ==
    /\ call = "step"
    /\ last_action[1] = REMOVE
    /\ evaluations = 1
    /\ state[last_action[2]] = <<0, 0>>
    /\ PresentSlots(state) # {}

\* C5: in every episode started by a reset, the max_steps-th step call since
\* that reset returns done=True and every earlier one returns done=False.
C5_DoneAtMaxStepsOfEpisode ==
    (reset_seen /\ call = "step") => (ret.done <=> calls_since_reset = max_steps)

\* C6: after reset, step_counter is 0 and every slot holds the sentinel.
C6_ResetClearsCounterAndSlots ==
    call = "reset" =>
        /\ step_counter = 0
        /\ \A i \in Slots : state[i] = <<0, 0>>

\* C7: once a step has returned done=True, a further step call before reset
\* raises and changes neither the point set nor the step counter.
C7_StepAfterDoneRaises ==
    [][ (done_returned /\ StepCalled) =>
            /\ call' = "raised"
            /\ state' = state
            /\ step_counter' = step_counter ]_vars

\* C8: a step call whose action lies outside the declared action space
\* raises before anything changes: step_counter and every slot keep their
\* values and the evaluator is not invoked.
C8_OutOfBoundsActionRaises ==
    [][ (StepCalled /\ ~InDeclaredSpace(last_action')) =>
            /\ call' = "raised"
            /\ state' = state
            /\ step_counter' = step_counter
            /\ evaluations' = 0 ]_vars

\* C8 witness: a step with an x one past the last coordinate has just raised
\* in the middle of an episode with a point placed.
C8_Witness ==
    /\ call = "raised"
    /\ last_action[3] = DeclaredExtent
    /\ step_counter > 0
    /\ PresentSlots(state) # {}

\* C9: the evaluator is invoked exactly once in every accepted step and finds
\* the point set as it is after the mutation; it is not invoked in a
\* rejected step nor in reset.
C9_EvaluatedOnceAfterMutation ==
    /\ (call = "step" /\ branch \in {"add", "remove"}) =>
            (evaluations = 1 /\ evaluated = state)
    /\ (call = "step" /\ branch \in {"duplicate", "empty"}) => evaluations = 0
    /\ call = "reset" => evaluations = 0

\* C9 witness: an accepted ADD_UPDATE overwrote a present slot with another
\* point and the evaluator ran.
C9_Witness ==
    /\ call = "step"
    /\ branch = "add"
    /\ evaluations = 1
    /\ state[last_action[2]] = <<5, 5>>
    /\ PresentSlots(state) = Slots

\* The present slots of st from slot i on, in slot order, each converted.
RECURSIVE PresentPointsFrom(_, _)
PresentPointsFrom(st, i) ==
    IF i = max_number_of_points THEN <<>>
    ELSE (IF IsPresent(st, i)
          THEN << <<to_continuous(st[i][1]), to_continuous(st[i][2])>> >>
          ELSE <<>>) \o PresentPointsFrom(st, i + 1)

\* C10: the point sequence exported for the evaluator holds exactly one entry
\* for each present slot, in slot order, and none for an empty slot; a slot
\* holding a point with one zero coordinate such as (0, 5) is exported.
C10_ExportsEveryPresentSlot ==
    get_road_points(state) = PresentPointsFrom(state, 0)

C12_ResetTwice ==
    [][ (consecutive_resets >= 1 /\ call' = "reset") =>
            /\ ret'.obs = ret.obs
            /\ ret'.obs = [k \in 1 .. (2 * max_number_of_points + 1) |-> 0]
            /\ state' = state
            /\ step_counter' = step_counter ]_vars

\* C12 witness: two resets in a row have been made after some steps.
C12_Witness ==
    /\ call = "reset"
    /\ consecutive_resets = 2
    /\ step_counter > 0

\* discrete_extent for a grid size g, as the properties state it.
DeclaredExtentFor(g) ==
    (20 * g * discretization_precision - 2 * g * discretization_precision) \div 20

\* C13: in every observation each coordinate element lies in
\* [0, discrete_extent), discrete_extent being grid_size*precision -
\* 2*buffer_width*precision, and the OOB element lies in [0, 100*precision)
\* whenever the evaluator returns max_oob in [0, 100].
C13_ObservationWithinBounds ==
    conv_phase = "converted" =>
        /\ 0 <= conv_output.obs1
        /\ conv_output.obs1 < DeclaredExtentFor(conv_input.grid_size)
        /\ 0 <= conv_output.obs2
        /\ conv_output.obs2 < DeclaredExtentFor(conv_input.grid_size)
        /\ 0 <= conv_output.oob
        /\ conv_output.oob < 100 * discretization_precision

\* C14: for every configured grid_size and every discrete coordinate d in
\* [0, discrete_extent) the float16 observation entry of d equals d, so two
\* distinct stored coordinates never give equal observation entries.
C14_ObservationEntryExact ==
    conv_phase = "converted" =>
        /\ conv_output.obs1 = conv_input.d1
        /\ conv_output.obs2 = conv_input.d2
        /\ conv_output.obs1 # conv_output.obs2

\* C15: to_continuous is strictly increasing and injective over
\* [0, discrete_extent): d1 < d2 implies to_continuous(d1) < to_continuous(d2).
C15_ToContinuousIncreasing ==
    conv_phase = "converted" =>
        /\ conv_input.d1 < conv_input.d2
        /\ Less(conv_output.continuous1, conv_output.continuous2)
        /\ conv_output.continuous1[1] * conv_output.continuous2[2]
              # conv_output.continuous2[1] * conv_output.continuous1[2]

\* C15 witness: two neighbouring coordinates past 2048 of a 228-wide grid
\* have been converted.
C15_Witness ==
    /\ conv_phase = "converted"
    /\ conv_input.grid_size = 228
    /\ conv_input.d1 = 2048
    /\ conv_input.d2 = 2049
    /\ conv_output.continuous2 = <<20 * 2049 + 228, 200>>

\* C16: for every in-bounds d the exported continuous coordinate lies outside
\* the excluded margin: buffer_width <= to_continuous(d) <= grid_size -
\* buffer_width, with buffer_width = grid_size/20 in map units.
C16_ContinuousOutsideMargin ==
    conv_phase = "converted" =>
        LET g == conv_input.grid_size
            low == <<g, 20>>
            high == <<19 * g, 20>>
        IN  /\ LessEq(low, conv_output.continuous1)
            /\ LessEq(conv_output.continuous1, high)
            /\ LessEq(low, conv_output.continuous2)
            /\ LessEq(conv_output.continuous2, high)

\* C17: after every accepted ADD_UPDATE on slot s, slot s is present, so an
\* accepted ADD_UPDATE never decreases the number of present slots; also for
\* (x, y) = (0, 0) and when every slot is present.
C17_AcceptedAddLeavesSlotPresent ==
    [][ (call' = "step" /\ last_action'[1] = ADD_UPDATE /\ evaluations' = 1) =>
            /\ IsPresent(state', last_action'[2])
            /\ Cardinality(PresentSlots(state')) >= Cardinality(PresentSlots(state)) ]_vars

\* C18: every step call with action (operation, s, x, y) leaves every slot
\* other than s unchanged and never changes the number of slots.
C18_OnlyAddressedSlotChanges ==
    [][ StepCalled =>
            /\ DOMAIN state' = 0 .. (max_number_of_points - 1)
            /\ \A i \in Slots : i # last_action'[2] => state'[i] = state[i] ]_vars

\* C18 witness: an accepted ADD_UPDATE has just written one slot while the
\* other slot holds an earlier point.
C18_Witness ==
    /\ call = "step"
    /\ last_action[1] = ADD_UPDATE
    /\ evaluations = 1
    /\ state[last_action[2]] = <<last_action[3], last_action[4]>>
    /\ \E i \in Slots : i # last_action[2] /\ IsPresent(state, i)

=============================================================================
